---- MODULE Spec2Model ----
(***************************************************************************)
(* Model of the umem MCP gateway (crates/umem_mcp): start-up of the OAuth  *)
(* store, the axum router built by run_server, the bearer-token middleware *)
(* validate_token_middleware, token::check_token and the identity lookup   *)
(* extract_user_id of the tool service.                                    *)
(*                                                                         *)
(* jsonwebtoken (>= 8, the first release whose from_rsa_components returns *)
(* a Result as token.rs:44-45 requires) is modelled by what decode does    *)
(* under Validation::new(RS256) + set_audience: algorithm check, signature *)
(* check, claim deserialisation, required exp, exp against now - leeway    *)
(* (leeway 60 by default), audience compared only when the claim is        *)
(* present.                                                                *)
(***************************************************************************)
EXTENDS Integers, Sequences, FiniteSets, TLC

VARIABLES phase, env, jwks, now, req, points, tool, oauth,
          clients, srv, memories, grpc, scrape, controller

\* the gateway's state; the vector store with the tool call being served; the
\* OAuth endpoint call being served
toolvars == <<points, tool>>
oauthvars == <<oauth>>
\* the registered OAuth clients; the listener and its sessions; the in-memory
\* gRPC memory service with the call being served; the scrape in progress; the
\* ids of the points deleted from the collection
auxvars == <<clients, srv, memories, grpc, scrape, controller>>
vars == <<phase, env, jwks, now, req, points, tool, oauth,
          clients, srv, memories, grpc, scrape, controller>>

----------------------------------------------------------------------------
(* Bounds *)

\* the clock runs over Epoch .. Epoch + MaxClock
MaxClock == 2
\* first clock value; any value above Leeway keeps now - leeway non-negative
Epoch == 100

(* Program constants *)

\* jsonwebtoken::Validation::new: default leeway, in seconds
Leeway == 60

None == "none"

\* the literal that strip_prefix removes, "Bearer " (lib.rs:463)
BearerPrefix == <<"B", "e", "a", "r", "e", "r", " ">>

----------------------------------------------------------------------------
(* Input universes *)

Kids == {"k1", "k2"}
\* RSA key pairs that exist; "bad" stands for n/e that are not valid components
KeyMaterial == {"K1", "K2"}
Subjects == {"alice", "bob"}
ExpectedAud == "client"

\* key-set documents the JWKS endpoint may publish (token.rs:19-22)
JwksDocs ==
    { <<>>,
      << [kid |-> "k1", mat |-> "K1"] >>,
      << [kid |-> "k1", mat |-> "K1"], [kid |-> "k2", mat |-> "K2"] >>,
      << [kid |-> "k1", mat |-> "bad"], [kid |-> "k2", mat |-> "K2"] >>,
      << [kid |-> "k1", mat |-> "K1"], [kid |-> "k1", mat |-> "K2"] >> }

ExpValues == {Epoch - Leeway - 1, Epoch - Leeway, Epoch, Epoch + MaxClock + 1}

\* a bearer string whose header segment does not decode
Garbage ==
    [hdr |-> "malformed", kid |-> None, alg |-> None, signer |-> None,
     sub |-> None, exp |-> -1, aud |-> None]

\* well-formed compact tokens: header (kid, alg), who signed, payload claims.
\* exp = -1 stands for a payload without exp.
WellFormed ==
    [hdr : {"ok"}, kid : Kids \cup {None}, alg : {"RS256", "HS256"},
     signer : {"K1", "K2", "forged"}, sub : {"alice", None},
     exp : ExpValues \cup {-1}, aud : {ExpectedAud, "other", None}]

Tokens == WellFormed \cup {Garbage}

GoodToken ==
    [hdr |-> "ok", kid |-> "k1", alg |-> "RS256", signer |-> "K1",
     sub |-> "alice", exp |-> Epoch + MaxClock + 1, aud |-> ExpectedAud]

\* Authorization header values that are text other than "Bearer " ++ token
OtherTexts ==
    { <<"b", "e", "a", "r", "e", "r", " ">>,
      <<"B", "e", "a", "r", "e", "r">>,
      <<"B", "a", "s", "i", "c", " ">>,
      <<>>,
      <<"B", "e", "a", "r", "e", "r", " ", " ">> }

\* a header value is bytes: text followed by a token; ascii = FALSE when the
\* value holds bytes HeaderValue::to_str refuses
AuthHeaders ==
    [ascii : {TRUE}, text : {BearerPrefix}, tok : Tokens]
    \cup [ascii : {TRUE}, text : OtherTexts, tok : {GoodToken, Garbage}]
    \cup [ascii : {FALSE}, text : {BearerPrefix}, tok : {GoodToken}]

NoHeader == [ascii |-> TRUE, text |-> <<"-">>, tok |-> Garbage]

Paths == {"/", "/mcp", "/mcp/sse", "/mcp/message"}

----------------------------------------------------------------------------
(* token.rs *)

NoResult == [kind |-> None, msg |-> None, sub |-> None, exp |-> -1, sigv |-> None]

Panic == [kind |-> "panic", msg |-> None, sub |-> None, exp |-> -1, sigv |-> "not_attempted"]

ErrResult(m, s) == [kind |-> "err", msg |-> m, sub |-> None, exp |-> -1, sigv |-> s]

OkResult(t) == [kind |-> "ok", msg |-> None, sub |-> t.sub, exp |-> t.exp, sigv |-> "passed"]

\* FindKey that falls back to the first key when no kid matches
FindKeyFallback(keys, kid) ==
    IF \E i \in 1..Len(keys) : keys[i].kid = kid
    THEN CHOOSE i \in 1..Len(keys) :
            /\ keys[i].kid = kid
            /\ \A j \in 1..(i - 1) : keys[j].kid # kid
    ELSE IF Len(keys) > 0 THEN 1 ELSE 0

\* keys.keys.iter().find(|k| k.kid == kid): index of the first match, 0 if none
FindKey(keys, kid) ==
    IF \E i \in 1..Len(keys) : keys[i].kid = kid
    THEN CHOOSE i \in 1..Len(keys) :
            /\ keys[i].kid = kid
            /\ \A j \in 1..(i - 1) : keys[j].kid # kid
    ELSE 0

\* jwt_decode that trusts the header's algorithm instead of requiring RS256
jwt_decode_any_alg(t, mat, aud, clock) ==
    IF t.signer # mat THEN ErrResult("JWT Decode Error: InvalidSignature", "failed")
    ELSE IF t.sub = None \/ t.exp = -1 THEN ErrResult("JWT Decode Error: Json", "passed")
    ELSE IF t.exp < clock - Leeway THEN ErrResult("JWT Decode Error: ExpiredSignature", "passed")
    ELSE IF t.aud # None /\ t.aud # aud THEN ErrResult("JWT Decode Error: InvalidAudience", "passed")
    ELSE OkResult(t)

\* jwt_decode that applies the leeway in the wrong direction
jwt_decode_early_expiry(t, mat, aud, clock) ==
    IF t.alg # "RS256" THEN ErrResult("JWT Decode Error: InvalidAlgorithm", "not_attempted")
    ELSE IF t.signer # mat THEN ErrResult("JWT Decode Error: InvalidSignature", "failed")
    ELSE IF t.sub = None \/ t.exp = -1 THEN ErrResult("JWT Decode Error: Json", "passed")
    ELSE IF t.exp < clock + Leeway THEN ErrResult("JWT Decode Error: ExpiredSignature", "passed")
    ELSE IF t.aud # None /\ t.aud # aud THEN ErrResult("JWT Decode Error: InvalidAudience", "passed")
    ELSE OkResult(t)

\* jsonwebtoken::decode::<Claims>(token, &decoding_key, &validation)
jwt_decode(t, mat, aud, clock) ==
    IF t.alg # "RS256" THEN ErrResult("JWT Decode Error: InvalidAlgorithm", "not_attempted")
    ELSE IF t.signer # mat THEN ErrResult("JWT Decode Error: InvalidSignature", "failed")
    ELSE IF t.sub = None \/ t.exp = -1 THEN ErrResult("JWT Decode Error: Json", "passed")
    ELSE IF t.exp < clock - Leeway THEN ErrResult("JWT Decode Error: ExpiredSignature", "passed")
    ELSE IF t.aud # None /\ t.aud # aud THEN ErrResult("JWT Decode Error: InvalidAudience", "passed")
    ELSE OkResult(t)

\* check_token(token, keys); ts is the bearer string: leftover text, then token
check_token(ts, keys, client_id, clock) ==
    IF ts.text # <<>> \/ ts.tok.hdr = "malformed" THEN Panic
    ELSE IF ts.tok.kid = None THEN ErrResult("No kid found in token header", "not_attempted")
    ELSE IF client_id = None
         THEN ErrResult("WORKOS_CLIENT_ID environment variable not set", "not_attempted")
    ELSE LET i == FindKey(keys, ts.tok.kid) IN
         IF i = 0 THEN ErrResult("No matching kid found in jwks", "not_attempted")
         ELSE IF keys[i].mat = "bad" THEN ErrResult("Decoding Key Error", "not_attempted")
         ELSE jwt_decode(ts.tok, keys[i].mat, client_id, clock)

----------------------------------------------------------------------------
(* lib.rs and service.rs *)

Unauthorized == [status |-> 401, body |-> "empty"]

\* a panicking task: the connection is dropped, no HTTP response is written
Aborted == [status |-> 0, body |-> "connection_closed"]

NoResponse == [status |-> -1, body |-> None]

Idle ==
    [stage |-> "idle", path |-> None, auth |-> NoHeader, uid |-> None,
     checked |-> FALSE, verdict |-> NoResult, checked_at |-> -1,
     handler_ran |-> FALSE, user_id |-> None, response |-> NoResponse, log |-> None]

\* run_server: the routes and the layer each one carries.  "/" and "/mcp" are
\* routes of `app` (index); the SSE router's two paths carry the token layer.
Route(path) ==
    CASE path = "/"             -> [handler |-> "index", token_layer |-> FALSE]
      [] path = "/mcp"          -> [handler |-> "index", token_layer |-> FALSE]
      [] path = "/mcp/sse"      -> [handler |-> "sse_handler", token_layer |-> TRUE]
      [] path = "/mcp/message"  -> [handler |-> "post_event_handler", token_layer |-> TRUE]

\* StripPrefix that strips "Bearer" without requiring the space after it
StripPrefixNoSpace(h) ==
    LET text == IF h.ascii THEN h.text ELSE <<>>
        n == Len(BearerPrefix) - 1
    IN  IF Len(text) >= n /\ SubSeq(text, 1, n) = SubSeq(BearerPrefix, 1, n)
        THEN [stripped |-> TRUE, text |-> SubSeq(text, n + 1, Len(text)), tok |-> h.tok]
        ELSE [stripped |-> FALSE, text |-> <<>>, tok |-> h.tok]

\* header_str.strip_prefix("Bearer "), with header.to_str().unwrap_or("")
\* before it: the remaining bearer string, or stripped = FALSE
StripPrefix(h) ==
    LET text == IF h.ascii THEN h.text ELSE <<>>
        n == Len(BearerPrefix)
    IN  IF Len(text) >= n /\ SubSeq(text, 1, n) = BearerPrefix
        THEN [stripped |-> TRUE, text |-> SubSeq(text, n + 1, Len(text)), tok |-> h.tok]
        ELSE [stripped |-> FALSE, text |-> <<>>, tok |-> h.tok]

\* extract_user_id(parts): the request's own user-id header; panics without it
extract_user_id(r) == IF r.uid = None THEN "panic" ELSE r.uid

\* McpOAuthStore::new, called first by run_server: every unwrap/expect that
\* fails aborts start-up
McpOAuthStore_new ==
    /\ phase = "boot"
    /\ \E fetched \in BOOLEAN, doc \in JwksDocs :
         IF /\ env.WORKOS_CLIENT_ID # None
            /\ env.WORKOS_CLIENT_SECRET # None
            /\ env.JWKS_URL # None
            /\ fetched
         THEN phase' = "serving" /\ jwks' = doc
         ELSE phase' = "aborted" /\ jwks' = jwks
    /\ UNCHANGED <<env, now, req, toolvars, oauthvars, auxvars>>

Tick ==
    /\ now < Epoch + MaxClock
    /\ now' = now + 1
    /\ UNCHANGED <<phase, env, jwks, req, toolvars, oauthvars, auxvars>>

\* a client connection delivers one request; the router picks the route
Receive ==
    /\ phase = "serving"
    /\ req.stage = "idle"
    /\ \E p \in Paths, a \in AuthHeaders \cup {NoHeader}, u \in Subjects \cup {None} :
         req' = [Idle EXCEPT !.stage = IF Route(p).token_layer THEN "middleware"
                                        ELSE "downstream",
                             !.path = p, !.auth = a, !.uid = u]
    /\ UNCHANGED <<phase, env, jwks, now, toolvars, oauthvars, auxvars>>

\* validate_token_middleware that drops the key set when a token fails
validate_token_middleware_dropping_keys ==
    /\ req.stage = "middleware"
    /\ LET s == StripPrefix(req.auth) IN
       IF req.auth = NoHeader \/ ~s.stripped
       THEN /\ req' = [req EXCEPT !.stage = "responded", !.response = Unauthorized]
            /\ jwks' = jwks
       ELSE LET v == check_token(s, jwks, env.WORKOS_CLIENT_ID, now) IN
            /\ req' = [req EXCEPT
                      !.checked = TRUE, !.verdict = v, !.checked_at = now,
                      !.stage = IF v.kind = "ok" THEN "downstream" ELSE "responded",
                      !.response = IF v.kind = "ok" THEN NoResponse
                                   ELSE IF v.kind = "panic" THEN Aborted
                                   ELSE Unauthorized,
                      !.log = IF v.kind = "err" THEN v.msg ELSE req.log]
            /\ jwks' = IF v.kind = "ok" THEN jwks ELSE <<>>
    /\ UNCHANGED <<phase, env, now, toolvars, oauthvars, auxvars>>

\* validate_token_middleware up to next.run(request)
validate_token_middleware ==
    /\ req.stage = "middleware"
    /\ LET s == StripPrefix(req.auth) IN
       IF req.auth = NoHeader \/ ~s.stripped
       THEN req' = [req EXCEPT !.stage = "responded", !.response = Unauthorized]
       ELSE LET v == check_token(s, jwks, env.WORKOS_CLIENT_ID, now) IN
            req' = [req EXCEPT
                      !.checked = TRUE, !.verdict = v, !.checked_at = now,
                      !.stage = IF v.kind = "ok" THEN "downstream" ELSE "responded",
                      !.response = IF v.kind = "ok" THEN NoResponse
                                   ELSE IF v.kind = "panic" THEN Aborted
                                   ELSE Unauthorized,
                      !.log = IF v.kind = "err" THEN v.msg ELSE req.log]
    /\ UNCHANGED <<phase, env, jwks, now, toolvars, oauthvars, auxvars>>

\* index(): the static page, served on "/" and "/mcp"
index ==
    /\ req.stage = "downstream"
    /\ Route(req.path).handler = "index"
    /\ req' = [req EXCEPT !.stage = "responded", !.handler_ran = TRUE,
                          !.response = [status |-> 200, body |-> "INDEX_HTML"]]
    /\ UNCHANGED <<phase, env, jwks, now, toolvars, oauthvars, auxvars>>

\* GET /mcp/sse: opens the event stream of a new session
sse_handler ==
    /\ req.stage = "downstream"
    /\ Route(req.path).handler = "sse_handler"
    /\ req' = [req EXCEPT !.stage = "responded", !.handler_ran = TRUE,
                          !.response = [status |-> 200, body |-> "event_stream"]]
    /\ UNCHANGED <<phase, env, jwks, now, toolvars, oauthvars, auxvars>>

\* POST /mcp/message: a tool call; the tool reads the caller with
\* extract_user_id from the request parts
post_event_handler ==
    /\ req.stage = "downstream"
    /\ Route(req.path).handler = "post_event_handler"
    /\ LET u == extract_user_id(req) IN
       req' = [req EXCEPT !.stage = "responded", !.handler_ran = TRUE,
                          !.user_id = u,
                          !.response = IF u = "panic" THEN Aborted
                                       ELSE [status |-> 202, body |-> "accepted"]]
    /\ UNCHANGED <<phase, env, jwks, now, toolvars, oauthvars, auxvars>>

\* the response has been written; the connection takes the next request
Complete ==
    /\ req.stage = "responded"
    /\ req' = Idle
    /\ UNCHANGED <<phase, env, jwks, now, toolvars, oauthvars, auxvars>>

----------------------------------------------------------------------------
(* lib.rs: the OAuth endpoints, served outside the token middleware.         *)

Absent == [some |-> FALSE, v |-> ""]
Given(x) == [some |-> TRUE, v |-> x]

\* Option::unwrap_or
unwrap_or(o, d) == IF o.some THEN o.v ELSE d

\* the query strings of GET /oauth/authorize: a required field may be missing
ClientIds == {"mcp-client", "c1", "c2"}
RedirectUris == {"https://client/cb", "/cb"}

\* reqwest::Url::parse succeeds on an absolute URL only
AbsoluteUrls == {"http://localhost:8080/callback", "https://client/cb"}
ChallengeMethods == {"S256", "plain", "S512"}
Opt(S) == {Absent} \cup {Given(x) : x \in S}
AuthorizeQueries ==
    [response_type : Opt({"code"}), client_id : Opt(ClientIds),
     redirect_uri : Opt(RedirectUris), scope : Opt({"profile"}),
     state : Opt({"s1"}), code_challenge : Opt({"ch"}),
     code_challenge_method : Opt(ChallengeMethods)]

NoQuery ==
    [response_type |-> Absent, client_id |-> Absent, redirect_uri |-> Absent,
     scope |-> Absent, state |-> Absent, code_challenge |-> Absent,
     code_challenge_method |-> Absent]

\* no redirect: the parameters a redirect to the identity provider carries
NoLocation ==
    [url |-> None, response_type |-> None, client_id |-> None,
     redirect_uri |-> None, code_challenge |-> None,
     code_challenge_method |-> None, provider |-> None,
     state |-> <<>>, scope |-> None]

\* serde_json::to_string of a WorkOsState: the JSON text, key after key
to_string(ws) ==
    <<"client_id", ws.client_id, "original_state", ws.original_state,
      "scopes", ws.scopes, "original_redirect_uri", ws.original_redirect_uri>>

\* serde_json::from_str::<WorkOsState> succeeds on a text with the four keys
is_WorkOsState(text) ==
    /\ Len(text) = 8
    /\ text[1] = "client_id" /\ text[3] = "original_state"
    /\ text[5] = "scopes" /\ text[7] = "original_redirect_uri"

from_str(text) ==
    [client_id |-> text[2], original_state |-> text[4],
     scopes |-> text[6], original_redirect_uri |-> text[8]]

\* an optional list or text that is missing
AbsentSeq == [some |-> FALSE, v |-> <<>>]
OptSeq(S) == {AbsentSeq} \cup {Given(x) : x \in S}

\* the bodies of POST /oauth/register
UriLists == {<<>>, <<"">>, <<"https://client/cb">>, <<"/cb", "https://client/cb">>}
RegisterRequests == [client_name : {"app"}, redirect_uris : OptSeq(UriLists)]
NoRegister == [client_name |-> None, redirect_uris |-> AbsentSeq]

\* Uuid::new_v4 in oauth_register: the ids not handed out yet
GeneratedIds == {"c1"}

\* the query strings of GET /mcp/callback
CallbackStates ==
    {to_string(ws) : ws \in [client_id : {"c1"}, original_state : {"", "s1"},
                             scopes : {""}, original_redirect_uri : RedirectUris]}
      \cup {<<"garbage">>}
CallbackQueries == [code : Opt({"code1"}), state : OptSeq(CallbackStates)]
NoCallback == [code |-> Absent, state |-> AbsentSeq]
NoRedirect == [url |-> None, code |-> None, state |-> None]

\* McpOAuthStore::new: the one client the store starts with
InitialClients ==
    [id \in {"mcp-client"} |->
        [client_id |-> "mcp-client", client_secret |-> "mcp-client-secret",
         scopes |-> {"profile", "email"},
         redirect_uri |-> "http://localhost:8080/callback"]]

\* str::contains on the URIs of the model
contains(hay, needle) ==
    \/ needle = ""
    \/ needle = hay
    \/ (hay = "https://client/cb" /\ needle = "/cb")

\* McpOAuthStore::validate_client
validate_client(cl, client_id, redirect_uri) ==
    /\ client_id \in DOMAIN cl
    /\ contains(cl[client_id].redirect_uri, redirect_uri)

NoOAuth ==
    [endpoint |-> None, query |-> NoQuery, status |-> 0,
     location |-> NoLocation, code_challenge_methods_supported |-> {},
     response_types_supported |-> {},
     register |-> NoRegister, client_id |-> None, error |-> None,
     callback |-> NoCallback, redirect |-> NoRedirect, panic |-> FALSE]

\* GET /.well-known/oauth-authorization-server
oauth_authorization_server ==
    /\ phase = "serving"
    /\ oauth' = [NoOAuth EXCEPT !.endpoint = "oauth_authorization_server",
                                !.status = 200,
                                !.response_types_supported = {"code"},
                                !.code_challenge_methods_supported = {"S256"}]
    /\ UNCHANGED <<phase, env, jwks, now, req, toolvars, auxvars>>

\* GET /oauth/authorize: Query<AuthorizeQuery> rejects a query without one of
\* the required fields with 400; validate_client is not called; the handler
\* redirects to the identity provider.
oauth_authorize ==
    /\ phase = "serving"
    /\ \E params \in AuthorizeQueries :
         LET c == [NoOAuth EXCEPT !.endpoint = "oauth_authorize", !.query = params]
             local_state ==
                 [client_id |-> params.client_id.v,
                  original_state |-> unwrap_or(params.state, ""),
                  scopes |-> unwrap_or(params.scope, ""),
                  original_redirect_uri |-> params.redirect_uri.v]
         IN  IF ~(params.response_type.some /\ params.client_id.some
                    /\ params.redirect_uri.some)
             THEN oauth' = [c EXCEPT !.status = 400]
             ELSE oauth' =
                    [c EXCEPT !.status = 307,
                       !.location =
                         [url |-> "https://api.workos.com/user_management/authorize",
                          response_type |-> "code",
                          client_id |-> env.WORKOS_CLIENT_ID,
                          redirect_uri |-> "https://mccp.evenscribe.com/mcp/callback",
                          code_challenge |-> unwrap_or(params.code_challenge, ""),
                          code_challenge_method |->
                              unwrap_or(params.code_challenge_method, "S256"),
                          provider |-> "authkit",
                          state |-> to_string(local_state),
                          scope |-> "openid profile email offline_access"]]
    /\ UNCHANGED <<phase, env, jwks, now, req, toolvars, auxvars>>

\* POST /oauth/register: Json<ClientRegistrationRequest> rejects a body
\* without redirect_uris with 422; an empty list is answered 400; else the
\* client is stored under a fresh id with the first URI of the list.
oauth_register ==
    /\ phase = "serving"
    /\ GeneratedIds \ DOMAIN clients # {}
    /\ \E body \in RegisterRequests, id \in GeneratedIds \ DOMAIN clients :
         LET c == [NoOAuth EXCEPT !.endpoint = "oauth_register", !.register = body]
         IN  IF ~body.redirect_uris.some
             THEN oauth' = [c EXCEPT !.status = 422] /\ clients' = clients
             ELSE IF body.redirect_uris.v = <<>>
             THEN /\ oauth' = [c EXCEPT !.status = 400, !.error = "invalid_request"]
                  /\ clients' = clients
             ELSE /\ clients' =
                       [k \in DOMAIN clients \cup {id} |->
                          IF k = id
                          THEN [client_id |-> id, client_secret |-> "generated",
                                scopes |-> {},
                                redirect_uri |-> body.redirect_uris.v[1]]
                          ELSE clients[k]]
                  /\ oauth' = [c EXCEPT !.status = 201, !.client_id = id]
    /\ UNCHANGED <<phase, env, jwks, now, req, toolvars,
                   srv, memories, grpc, scrape, controller>>

\* GET /mcp/callback
workos_callback ==
    /\ phase = "serving"
    /\ \E params \in CallbackQueries :
         LET c == [NoOAuth EXCEPT !.endpoint = "workos_callback", !.callback = params]
             code == unwrap_or(params.code, "")
             state == IF params.state.some THEN params.state.v ELSE <<>>
         IN  IF ~is_WorkOsState(state)
             THEN oauth' = [c EXCEPT !.panic = TRUE]
             ELSE LET decoded_state == from_str(state)
                  IN  IF decoded_state.original_redirect_uri \notin AbsoluteUrls
                      THEN oauth' = [c EXCEPT !.panic = TRUE]
                      ELSE oauth' =
                             [c EXCEPT !.status = 307,
                                !.redirect =
                                  [url |-> decoded_state.original_redirect_uri,
                                   code |-> code,
                                   state |-> decoded_state.original_state]]
    /\ UNCHANGED <<phase, env, jwks, now, req, toolvars, auxvars>>

----------------------------------------------------------------------------
(* service.rs, umem_controller/src/lib.rs, umem_vector/src/qdrant.rs:         *)
(* the four tools, served after the middleware let the request through.      *)
(* uid is the request's user-id header, the value extract_user_id returns.   *)

\* tool calls served in one run
MaxCalls == 2

\* search_with_payload: limit.unwrap_or(10) (qdrant.rs:144)
ScrollLimit == 10
\* get_memories_by_query: search_with_vector(vector, Some(10), ..) (lib.rs:109)
SearchLimit == 10

AddTexts == {"", "c1"}
UpdateContents == {"c2"}
Queries == {"", "q"}

\* numbers of memories the collection may already hold when the server starts
StoredSizes == {0, 1, ScrollLimit, ScrollLimit + 1}

\* CFEmbeder.generate_embedding(text): the vector of a text
Embed(text) == [embedding_of |-> text]

\* a point of the collection: its vector and its payload; writer (not stored)
\* remembers whose call wrote the content
StoredBefore(k) ==
    [i \in 1..k |->
        [user_id |-> "alice", memory_id |-> i, content |-> "c1",
         created_at |-> Epoch, updated_at |-> Epoch,
         vector |-> Embed("c1"), writer |-> "alice"]]

NoCall == [op |-> None, tenant |-> None]

NoTool ==
    [seq |-> 0, name |-> None, uid |-> None, text |-> None, id |-> 0,
     outcome |-> None, msg |-> None, records |-> {}, err |-> None,
     ctl |-> NoCall, embedded |-> FALSE, searched |-> FALSE]

\* a tool call as it starts: nothing called, nothing returned
Call(name, uid, text, id) ==
    [NoTool EXCEPT !.seq = tool.seq + 1, !.name = name, !.uid = uid,
                   !.text = text, !.id = id]

\* Option::expect on None: the handler panics
Panicked(c) == [c EXCEPT !.outcome = "panic"]

\* Result::unwrap on the Err(e) the controller returned: the handler panics
Unwrap(c, e) == [c EXCEPT !.err = e, !.outcome = "panic"]

\* insert_embedding with the payload memory_id of another point
insert_embedding_other_id(pts, user_id, content, vectors, clock, writer) ==
    Append(pts, [user_id |-> user_id, memory_id |-> Len(pts),
                 content |-> content, created_at |-> clock, updated_at |-> clock,
                 vector |-> vectors, writer |-> writer])

\* QdrantVectorStore::insert_embedding: a fresh id, both timestamps = now
insert_embedding(pts, user_id, content, vectors, clock, writer) ==
    Append(pts, [user_id |-> user_id, memory_id |-> Len(pts) + 1,
                 content |-> content, created_at |-> clock, updated_at |-> clock,
                 vector |-> vectors, writer |-> writer])

\* update_vectors(id, vectors) of update_point
update_vectors(pts, id, vectors) == [pts EXCEPT ![id].vector = vectors]

\* set_payload of update_point: the keys of UpdateMemoryParameters
\* (memory_id, content) and updated_at are written, other keys are kept
set_payload(pts, id, content, clock, writer) ==
    [pts EXCEPT ![id].memory_id = id, ![id].content = content,
                ![id].updated_at = clock, ![id].writer = writer]

\* the points a filter on user_id matches
Matching(pts, user_id) == {pts[i] : i \in {j \in 1..Len(pts) : pts[j].user_id = user_id}}

\* what a scroll or search with a limit may return of the matching points:
\* all of them when they fit, else limit of them (order by uuid or by score)
Pages(S, limit) ==
    IF Cardinality(S) <= limit THEN {S}
    ELSE {T \in SUBSET S : Cardinality(T) = limit}

\* add_memory without the check of the text
add_memory_unchecked ==
    /\ tool.seq < MaxCalls
    /\ \E u \in Subjects \cup {None}, text \in AddTexts,
          fail \in {"none", "embedding", "store"} :
         LET c == Call("add_memory", u, text, 0)
             m == [c EXCEPT !.ctl = [op |-> "add_memory", tenant |-> u],
                            !.embedded = TRUE]
         IN  IF u = None
             THEN tool' = Panicked(c) /\ points' = points
             ELSE IF fail # "none"
             THEN tool' = Unwrap(m, fail) /\ points' = points
             ELSE /\ points' = insert_embedding(points, u, text, Embed(text), now, u)
                  /\ tool' = [m EXCEPT !.outcome = "success", !.msg = "null"]
    /\ UNCHANGED <<phase, env, jwks, now, req, oauthvars, auxvars>>

\* McpService::add_memory
add_memory ==
    /\ tool.seq < MaxCalls
    /\ \E u \in Subjects \cup {None}, text \in AddTexts,
          fail \in {"none", "embedding", "store"} :
         LET c == Call("add_memory", u, text, 0)
             m == [c EXCEPT !.ctl = [op |-> "add_memory", tenant |-> u],
                            !.embedded = TRUE]
         IN  IF u = None
             THEN tool' = Panicked(c) /\ points' = points
             ELSE IF text = ""
             THEN /\ tool' = [c EXCEPT !.outcome = "invalid_request",
                                       !.msg = "Memory content cannot be empty"]
                  /\ points' = points
             ELSE IF fail # "none"
             THEN tool' = Unwrap(m, fail) /\ points' = points
             ELSE /\ points' = insert_embedding(points, u, text, Embed(text), now, u)
                  /\ tool' = [m EXCEPT !.outcome = "success", !.msg = "null"]
    /\ UNCHANGED <<phase, env, jwks, now, req, oauthvars, auxvars>>

\* McpService::get_memory
get_memory ==
    /\ tool.seq < MaxCalls
    /\ \E u \in Subjects \cup {None}, fail \in {"none", "store"} :
         LET c == Call("get_memory", u, None, 0)
             m == [c EXCEPT !.ctl = [op |-> "get_memories_by_user_id", tenant |-> u],
                            !.searched = TRUE]
         IN  IF u = None THEN tool' = Panicked(c)
             ELSE IF fail # "none" THEN tool' = Unwrap(m, fail)
             ELSE \E page \in Pages(Matching(points, u), ScrollLimit) :
                    tool' = [m EXCEPT !.outcome = "success", !.records = page]
    /\ UNCHANGED <<phase, env, jwks, now, req, points, oauthvars, auxvars>>

\* McpService::get_memory_by_query
get_memory_by_query ==
    /\ tool.seq < MaxCalls
    /\ \E u \in Subjects \cup {None}, query \in Queries,
          fail \in {"none", "embedding", "store"} :
         LET c == Call("get_memory_by_query", u, query, 0)
             e == [c EXCEPT !.ctl = [op |-> "get_memories_by_query", tenant |-> u],
                            !.embedded = TRUE]
             m == [e EXCEPT !.searched = TRUE]
         IN  IF u = None THEN tool' = Panicked(c)
             ELSE IF fail = "embedding" THEN tool' = Unwrap(e, fail)
             ELSE IF fail = "store" THEN tool' = Unwrap(m, fail)
             ELSE \E page \in Pages(Matching(points, u), SearchLimit) :
                    tool' = [m EXCEPT !.outcome = "success", !.records = page]
    /\ UNCHANGED <<phase, env, jwks, now, req, points, oauthvars, auxvars>>

\* McpService::update_memory: takes no request parts; the point is addressed
\* by memory_id alone.  A memory_id that is no point fails in update_vectors.
update_memory ==
    /\ tool.seq < MaxCalls
    /\ \E u \in Subjects \cup {None}, content \in UpdateContents,
          id \in {1, Len(points), Len(points) + 1} \ {0},
          fail \in {"none", "embedding", "store", "set_payload"} :
         LET c == Call("update_memory", u, content, id)
             m == [c EXCEPT !.ctl = [op |-> "update_memory", tenant |-> None],
                            !.embedded = TRUE]
         IN  IF fail = "embedding"
             THEN tool' = Unwrap(m, fail) /\ points' = points
             ELSE IF fail = "store" \/ id > Len(points)
             THEN tool' = Unwrap(m, "store") /\ points' = points
             ELSE IF fail = "set_payload"
             THEN /\ tool' = Unwrap(m, "store")
                  /\ points' = update_vectors(points, id, Embed(content))
             ELSE /\ tool' = [m EXCEPT !.outcome = "success"]
                  /\ points' = set_payload(update_vectors(points, id, Embed(content)),
                                           id, content, now, u)
    /\ UNCHANGED <<phase, env, jwks, now, req, oauthvars, auxvars>>

----------------------------------------------------------------------------
(* lib.rs, run_server: the listener, the SSE sessions and Ctrl+C.  One       *)
(* CancellationToken, sse_server.config.ct, is held by the graceful shutdown  *)
(* of axum::serve, by the Ctrl+C task and, through child tokens, by every    *)
(* session the SSE server serves.                                            *)

\* the connections a run may see
Sessions == {"s1", "s2", "s3"}

NoSrv ==
    [ct |-> FALSE, accepting |-> TRUE, returned |-> FALSE, cancelled_at |-> -1,
     sessions |-> [s \in Sessions |-> "none"]]

\* a client opens an SSE session on the listener
sse_connect ==
    /\ srv.accepting
    /\ \E s \in Sessions :
         /\ srv.sessions[s] = "none"
         /\ srv' = [srv EXCEPT !.sessions[s] = "open"]
    /\ UNCHANGED <<phase, env, jwks, now, req, toolvars, oauthvars,
                   clients, memories, grpc, scrape, controller>>

\* a client closes its session
sse_disconnect ==
    /\ \E s \in Sessions :
         /\ srv.sessions[s] = "open"
         /\ srv' = [srv EXCEPT !.sessions[s] = "closed"]
    /\ UNCHANGED <<phase, env, jwks, now, req, toolvars, oauthvars,
                   clients, memories, grpc, scrape, controller>>

\* the spawned task: tokio::signal::ctrl_c() returned, cancel_token2.cancel()
ctrl_c ==
    /\ ~srv.ct
    /\ srv' = [srv EXCEPT !.ct = TRUE, !.cancelled_at = now]
    /\ UNCHANGED <<phase, env, jwks, now, req, toolvars, oauthvars,
                   clients, memories, grpc, scrape, controller>>

\* with_graceful_shutdown: cancel_token.cancelled() resolved, the listener
\* stops accepting
with_graceful_shutdown ==
    /\ srv.ct /\ srv.accepting
    /\ srv' = [srv EXCEPT !.accepting = FALSE]
    /\ UNCHANGED <<phase, env, jwks, now, req, toolvars, oauthvars,
                   clients, memories, grpc, scrape, controller>>

\* a session's service, served with a child of ct, sees the cancellation and
\* ends; its stream closes
session_cancelled ==
    /\ srv.ct
    /\ \E s \in Sessions :
         /\ srv.sessions[s] = "open"
         /\ srv' = [srv EXCEPT !.sessions[s] = "cancelled"]
    /\ UNCHANGED <<phase, env, jwks, now, req, toolvars, oauthvars,
                   clients, memories, grpc, scrape, controller>>

\* server.await resolves once the listener is closed and no connection is
\* left; run_server returns Ok(())
server_await ==
    /\ ~srv.accepting /\ ~srv.returned
    /\ \A s \in Sessions : srv.sessions[s] # "open"
    /\ srv' = [srv EXCEPT !.returned = TRUE]
    /\ UNCHANGED <<phase, env, jwks, now, req, toolvars, oauthvars,
                   clients, memories, grpc, scrape, controller>>

----------------------------------------------------------------------------
(* umem_grpc_server/src/lib.rs: MemoryServiceImpl, the in-memory service.    *)
(* memories is the Mutex<HashMap<String, Memory>>: the map, and whether a    *)
(* panic under the lock has poisoned the mutex.  Timestamps are seconds; 0   *)
(* stands for the empty string.                                              *)

I32Max == 2147483647

\* list_memories: limit when the request has none
DefaultLimit == 10

MemoryIds == {"a"}
\* Uuid::new_v4 in add_memory: the ids not handed out yet
Uuids == {"u1"}
Titles == {"t1", "t2"}
TagSets == {{}, {"x"}}
Stamps == {0}

MemoryRequests ==
    [id : {""} \cup MemoryIds, title : Titles, tags : TagSets,
     created_at : Stamps, updated_at : {0}]
UpdateRequests ==
    [id : {""} \cup MemoryIds \cup Uuids, title : Titles, tags : TagSets,
     created_at : Stamps, updated_at : {0}]
NoMemory == [id |-> "", title |-> "", tags |-> {}, created_at |-> 0, updated_at |-> 0]

PageValues == {0, 2, 65537}
LimitValues == {0, 1, 65536}
SortBys ==
    {[field |-> None, order |-> "asc"], [field |-> "created_at", order |-> "desc"],
     [field |-> "title", order |-> "asc"], [field |-> "kind", order |-> "asc"]}
ListRequests ==
    [tags : {{}, {"x"}}, sort_by : SortBys, page : PageValues, limit : LimitValues]
NoList ==
    [tags |-> {}, sort_by |-> [field |-> None, order |-> "asc"],
     page |-> 0, limit |-> 0]

NoMemories == [poisoned |-> FALSE, map |-> [id \in {} |-> NoMemory]]

NoRpc ==
    [op |-> None, id |-> "", memory |-> NoMemory, list |-> NoList,
     status |-> None, rid |-> "", rmemory |-> NoMemory,
     filtered |-> <<>>, rlist |-> <<>>, total_count |-> 0, page |-> 0,
     page_size |-> 0, overflow |-> FALSE]

\* self.memories.lock().unwrap() on a poisoned mutex panics
Locked(c) == [c EXCEPT !.status = "panic"]

\* HashMap::insert
insert(map, key, value) ==
    [k \in DOMAIN map \cup {key} |-> IF k = key THEN value ELSE map[k]]

\* HashMap::remove
remove(map, key) == [k \in DOMAIN map \ {key} |-> map[k]]

\* HashMap::values(): the values in some order
values(map) ==
    {[i \in 1..Cardinality(DOMAIN map) |-> map[f[i]]] :
        f \in {g \in [1..Cardinality(DOMAIN map) -> DOMAIN map] :
                 \A i, j \in DOMAIN g : i # j => g[i] # g[j]}}

\* Vec::retain: the elements that pass, in their order
RECURSIVE retain(_, _)
retain(list, tags) ==
    IF list = <<>> THEN <<>>
    ELSE IF Head(list).tags \cap tags # {}
         THEN <<Head(list)>> \o retain(Tail(list), tags)
         ELSE retain(Tail(list), tags)

\* the key list_memories compares for a sort field; titles compare as strings
SortKey(memory, field) ==
    IF field = "created_at" THEN memory.created_at
    ELSE IF memory.title = "t1" THEN 1 ELSE 2

\* slice::sort_by: stable, ascending by a.cmp(b) or descending by b.cmp(a)
sort_by(list, field, order) ==
    LET n == Len(list)
        Before(i, j) ==
            LET a == SortKey(list[i], field)
                b == SortKey(list[j], field)
            IN  IF a = b THEN i < j
                ELSE IF order = "desc" THEN a > b ELSE a < b
        q == CHOOSE f \in [1..n -> 1..n] :
                /\ \A i, j \in 1..n : i # j => f[i] # f[j]
                /\ \A i, j \in 1..n : i < j => Before(f[i], f[j])
    IN  [i \in 1..n |-> list[q[i]]]

\* a * b in i32 for 0 <= a and 1 <= b: whether it overflows, and the value a
\* build without overflow checks computes, 16 bits at a time
MulOverflows(a, b) == a > I32Max \div b

wrapping_mul(a, b) ==
    LET a0 == a % 65536
        a1 == a \div 65536
        b0 == b % 65536
        b1 == b \div 65536
        p == a0 * (b0 % 256)
        q == a0 * (b0 \div 256)
        low == p + 256 * (q % 256)
        carry == (low \div 65536) + (q \div 256)
        hi == (carry + ((a1 * b0) % 65536) + ((a0 * b1) % 65536)) % 65536
    IN  IF hi >= 32768 THEN (hi - 65536) * 65536 + (low % 65536)
        ELSE hi * 65536 + (low % 65536)

\* the window list_memories cuts: start_index and end_index as usize, where a
\* negative start stands for 2^64 + start; empty unless start_index < len
Window(list, start, limit) ==
    LET n == Len(list)
    IN  IF start < 0 \/ start >= n THEN <<>>
        ELSE SubSeq(list, start + 1, IF limit >= n - start THEN n ELSE start + limit)

\* MemoryServiceImpl::add_memory
Grpc_add_memory ==
    /\ \E request \in MemoryRequests, uuid \in Uuids \cup {""} :
         /\ IF request.id = "" THEN uuid \in Uuids \ DOMAIN memories.map
            ELSE uuid = ""
         /\ LET id == IF request.id = "" THEN uuid ELSE request.id
                created == IF request.created_at = 0 THEN now
                           ELSE request.created_at
                memory == [request EXCEPT
                             !.id = id, !.created_at = created,
                             !.updated_at = IF request.updated_at = 0 THEN created
                                            ELSE request.updated_at]
                c == [NoRpc EXCEPT !.op = "add_memory", !.memory = request]
            IN  IF memories.poisoned
                THEN grpc' = Locked(c) /\ memories' = memories
                ELSE /\ memories' = [memories EXCEPT !.map = insert(@, id, memory)]
                     /\ grpc' = [c EXCEPT !.status = "ok", !.rid = id,
                                          !.rmemory = memory]
    /\ UNCHANGED <<phase, env, jwks, now, req, toolvars, oauthvars,
                   clients, srv, scrape, controller>>

\* MemoryServiceImpl::get_memory
Grpc_get_memory ==
    /\ \E id \in {""} \cup MemoryIds \cup Uuids :
         LET c == [NoRpc EXCEPT !.op = "get_memory", !.id = id]
         IN  IF memories.poisoned THEN grpc' = Locked(c)
             ELSE IF id \in DOMAIN memories.map
             THEN grpc' = [c EXCEPT !.status = "ok", !.rmemory = memories.map[id]]
             ELSE grpc' = [c EXCEPT !.status = "not_found"]
    /\ UNCHANGED <<phase, env, jwks, now, req, toolvars, oauthvars,
                   clients, srv, memories, scrape, controller>>

\* MemoryServiceImpl::delete_memory
Grpc_delete_memory ==
    /\ \E id \in {""} \cup MemoryIds \cup Uuids :
         LET c == [NoRpc EXCEPT !.op = "delete_memory", !.id = id]
         IN  IF memories.poisoned
             THEN grpc' = Locked(c) /\ memories' = memories
             ELSE IF id \in DOMAIN memories.map
             THEN /\ grpc' = [c EXCEPT !.status = "ok"]
                  /\ memories' = [memories EXCEPT !.map = remove(@, id)]
             ELSE /\ grpc' = [c EXCEPT !.status = "not_found"]
                  /\ memories' = memories
    /\ UNCHANGED <<phase, env, jwks, now, req, toolvars, oauthvars,
                   clients, srv, scrape, controller>>

\* MemoryServiceImpl::update_memory
Grpc_update_memory ==
    /\ \E request \in UpdateRequests :
         LET c == [NoRpc EXCEPT !.op = "update_memory", !.id = request.id,
                                !.memory = request]
         IN  IF memories.poisoned
             THEN grpc' = Locked(c) /\ memories' = memories
             ELSE IF request.id \notin DOMAIN memories.map
             THEN /\ grpc' = [c EXCEPT !.status = "not_found"]
                  /\ memories' = memories
             ELSE /\ grpc' = [c EXCEPT !.status = "ok"]
                  /\ memories' = [memories EXCEPT !.map =
                        insert(@, request.id, [request EXCEPT !.updated_at = now])]
    /\ UNCHANGED <<phase, env, jwks, now, req, toolvars, oauthvars,
                   clients, srv, scrape, controller>>

\* MemoryServiceImpl::list_memories.  (page - 1) * limit is an i32 product: a
\* build with overflow checks panics on overflow, with the lock held, which
\* poisons the mutex; a build without them goes on with the wrapped value.
list_memories ==
    /\ \E request \in ListRequests, all \in values(memories.map) :
         LET c == [NoRpc EXCEPT !.op = "list_memories", !.list = request]
             kept == IF request.tags # {} THEN retain(all, request.tags) ELSE all
             filtered_memories ==
                 IF request.sort_by.field \in {"created_at", "title"}
                 THEN sort_by(kept, request.sort_by.field, request.sort_by.order)
                 ELSE kept
             page == IF request.page > 0 THEN request.page ELSE 1
             limit == IF request.limit > 0 THEN request.limit ELSE DefaultLimit
             overflows == MulOverflows(page - 1, limit)
             start_index == wrapping_mul(page - 1, limit)
             d == [c EXCEPT !.filtered = filtered_memories, !.overflow = overflows]
         IN  IF memories.poisoned
             THEN grpc' = Locked(c) /\ memories' = memories
             ELSE \E overflow_checks \in IF overflows THEN BOOLEAN ELSE {FALSE} :
                    IF overflow_checks
                    THEN /\ grpc' = Locked(d)
                         /\ memories' = [memories EXCEPT !.poisoned = TRUE]
                    ELSE /\ grpc' = [d EXCEPT
                               !.status = "ok",
                               !.rlist = Window(filtered_memories, start_index, limit),
                               !.total_count = Len(filtered_memories),
                               !.page = page, !.page_size = limit]
                         /\ memories' = memories
    /\ UNCHANGED <<phase, env, jwks, now, req, toolvars, oauthvars,
                   clients, srv, scrape, controller>>

----------------------------------------------------------------------------
(* umem_controller/src/lib.rs, MemoryController over QdrantVectorStore: the   *)
(* calls that write the collection.  points holds every point ever inserted, *)
(* at the index that is its point id; controller.deleted holds the ids       *)
(* delete_point removed.                                                     *)

MaxPoints == 2

\* the content fields of the memories a caller adds
Contents == {"c1"}

\* MemoryBulk.memories
Bulks == {<<>>, <<"c1">>, <<"c1", "c1">>}

NoController == [op |-> "none", id |-> 0, err |-> "none", deleted |-> {}]

Ctl(op, id) == [controller EXCEPT !.op = op, !.id = id, !.err = "none"]

\* std::iter::zip: as many pairs as the shorter side has
zip(left, right) ==
    [i \in 1..(IF Len(left) <= Len(right) THEN Len(left) ELSE Len(right))
        |-> <<left[i], right[i]>>]

\* QdrantVectorStore::insert_embeddings_bulk: every pair becomes a point with
\* a fresh id and both timestamps = now
RECURSIVE insert_embeddings_bulk(_, _, _)
insert_embeddings_bulk(pts, pairs, clock) ==
    IF pairs = <<>> THEN pts
    ELSE insert_embeddings_bulk(
             insert_embedding(pts, "alice", Head(pairs)[1], Head(pairs)[2],
                              clock, "alice"),
             Tail(pairs), clock)

\* the ids a caller may name: a point, the last point, no point
PointIds == {1, Len(points), Len(points) + 1} \ {0}

Stored(id) == id \in 1..Len(points) /\ id \notin controller.deleted

Controller_add_memory ==
    /\ Len(points) < MaxPoints
    /\ \E content \in Contents, fail \in {"none", "embedding", "store"} :
         IF fail # "none"
         THEN /\ controller' = [Ctl("add_memory", 0) EXCEPT !.err = fail]
              /\ points' = points
         ELSE /\ controller' = Ctl("add_memory", Len(points) + 1)
              /\ points' = insert_embedding(points, "alice", content,
                                            Embed(content), now, "alice")
    /\ UNCHANGED <<phase, env, jwks, now, req, tool, oauthvars,
                   clients, srv, memories, grpc, scrape>>

Controller_add_memory_bulk ==
    /\ \E bulk \in Bulks, returned \in 0..2,
          fail \in {"none", "embedding", "store"} :
         LET vectors == [i \in 1..returned |-> Embed("c1")]
             pairs == zip(bulk, vectors)
         IN  /\ returned <= Len(bulk)
             /\ Len(points) + Len(pairs) <= MaxPoints
             /\ IF fail # "none"
                THEN /\ controller' = [Ctl("add_memory_bulk", 0) EXCEPT !.err = fail]
                     /\ points' = points
                ELSE /\ controller' = Ctl("add_memory_bulk", Len(pairs))
                     /\ points' = insert_embeddings_bulk(points, pairs, now)
    /\ UNCHANGED <<phase, env, jwks, now, req, tool, oauthvars,
                   clients, srv, memories, grpc, scrape>>

\* update_point: update_vectors, then set_payload; a memory_id that is no
\* point fails in update_vectors
Controller_update_memory ==
    /\ \E id \in PointIds, content \in UpdateContents,
          fail \in {"none", "embedding", "store", "set_payload"} :
         LET c == Ctl("update_memory", id)
         IN  IF fail = "embedding"
             THEN controller' = [c EXCEPT !.err = fail] /\ points' = points
             ELSE IF fail = "store" \/ ~Stored(id)
             THEN controller' = [c EXCEPT !.err = "store"] /\ points' = points
             ELSE IF fail = "set_payload"
             THEN /\ controller' = [c EXCEPT !.err = "store"]
                  /\ points' = update_vectors(points, id, Embed(content))
             ELSE /\ controller' = c
                  /\ points' = set_payload(update_vectors(points, id, Embed(content)),
                                           id, content, now, "alice")
    /\ UNCHANGED <<phase, env, jwks, now, req, tool, oauthvars,
                   clients, srv, memories, grpc, scrape>>

\* delete_point: the point with this id, if there is one, is removed
Controller_delete_memory ==
    /\ \E id \in PointIds, fail \in {"none", "store"} :
         LET c == Ctl("delete_memory", id)
         IN  IF fail = "store"
             THEN controller' = [c EXCEPT !.err = fail]
             ELSE controller' =
                      [c EXCEPT !.deleted = IF id <= Len(points) THEN @ \cup {id} ELSE @]
    /\ UNCHANGED <<phase, env, jwks, now, req, points, tool, oauthvars,
                   clients, srv, memories, grpc, scrape>>

----------------------------------------------------------------------------
(* umem_web_scrapper/src/lib.rs, Scrapper.  A body is the sequence of its    *)
(* words; a call of scrape is at one of the awaits of the function: the      *)
(* first scrape_callback, the sleep, the second scrape_callback.             *)

\* the texts html.contains looks for
Markers ==
    {<<"checking", "your", "browser">>, <<"cloudflare">>, <<"Please", "wait">>,
     <<"ray", "id">>}

Bodies ==
    {<<>>, <<"hello">>, <<"checking", "your", "browser">>, <<"via", "cloudflare">>,
     <<"Please", "wait">>, <<"ray", "id", "1">>, <<"Cloudflare">>,
     <<"please", "wait">>, <<"Please", "hold", "wait">>}

Statuses == {200, 404, 500}

\* what the network does with one GET: send fails or answers with a status,
\* and reading the body fails or gives the text
Responses == [sent : BOOLEAN, status : Statuses, read : BOOLEAN, body : Bodies]

NoFetch == [sent |-> FALSE, status |-> 0, read |-> FALSE, body |-> <<>>]

\* Result<String>
Fetched(html) == [ok |-> TRUE, html |-> html, err |-> ""]
Failed(e) == [ok |-> FALSE, html |-> <<>>, err |-> e]

NoScrape ==
    [pc |-> "idle", fetches |-> 0, first |-> NoFetch, second |-> NoFetch,
     html |-> Failed(""), result |-> Failed("")]

\* StatusCode::is_client_error, StatusCode::is_server_error
is_client_error(status) == status \in 400..499
is_server_error(status) == status \in 500..599

\* scrape_callback with every status taken as a success
scrape_callback_any_status(response) ==
    IF ~response.sent THEN Failed("send")
    ELSE IF ~response.read THEN Failed("text")
    ELSE Fetched(response.body)

\* scrape_callback: the Result of one GET
scrape_callback(response) ==
    IF ~response.sent THEN Failed("send")
    ELSE IF is_client_error(response.status) \/ is_server_error(response.status)
    THEN Failed("status")
    ELSE IF ~response.read THEN Failed("text")
    ELSE Fetched(response.body)

\* str::contains
html_contains(html, marker) ==
    \E i \in 1..(Len(html) - Len(marker) + 1) :
        SubSeq(html, i, i + Len(marker) - 1) = marker

\* the condition of the if in scrape
Challenged(html) == \E marker \in Markers : html_contains(html, marker)

\* scrape is called
Scrapper_scrape ==
    /\ scrape.pc = "idle"
    /\ scrape' = [NoScrape EXCEPT !.pc = "first"]
    /\ UNCHANGED <<phase, env, jwks, now, req, toolvars, oauthvars,
                   clients, srv, memories, grpc, controller>>

\* the first scrape_callback(url).await? and the test of its body
Scrapper_first_fetch ==
    /\ scrape.pc = "first"
    /\ \E response \in Responses :
         LET html == scrape_callback(response)
             s == [scrape EXCEPT !.fetches = @ + 1, !.first = response, !.html = html]
         IN  scrape' =
                 IF ~html.ok THEN [s EXCEPT !.pc = "returned", !.result = html]
                 ELSE IF Challenged(html.html) THEN [s EXCEPT !.pc = "sleep"]
                 ELSE [s EXCEPT !.pc = "returned", !.result = html]
    /\ UNCHANGED <<phase, env, jwks, now, req, toolvars, oauthvars,
                   clients, srv, memories, grpc, controller>>

\* tokio::time::sleep(5 s) completes
Scrapper_sleep ==
    /\ scrape.pc = "sleep"
    /\ scrape' = [scrape EXCEPT !.pc = "second"]
    /\ UNCHANGED <<phase, env, jwks, now, req, toolvars, oauthvars,
                   clients, srv, memories, grpc, controller>>

\* return Ok(Self::scrape_callback(url).await?)
Scrapper_second_fetch ==
    /\ scrape.pc = "second"
    /\ \E response \in Responses :
         scrape' = [scrape EXCEPT !.fetches = @ + 1, !.second = response,
                                  !.pc = "returned",
                                  !.result = scrape_callback(response)]
    /\ UNCHANGED <<phase, env, jwks, now, req, toolvars, oauthvars,
                   clients, srv, memories, grpc, controller>>

\* the caller has the result; scrape may be called again
Scrapper_returned ==
    /\ scrape.pc = "returned"
    /\ scrape' = NoScrape
    /\ UNCHANGED <<phase, env, jwks, now, req, toolvars, oauthvars,
                   clients, srv, memories, grpc, controller>>

\* the parts of the state a specification does not run
AuxInit ==
    /\ clients = InitialClients
    /\ srv = NoSrv
    /\ memories = NoMemories
    /\ grpc = NoRpc
    /\ scrape = NoScrape
    /\ controller = NoController

----------------------------------------------------------------------------
\* the server is up, the collection holds what earlier runs stored
ToolInit ==
    /\ phase = "serving"
    /\ env = [WORKOS_CLIENT_ID |-> ExpectedAud, WORKOS_CLIENT_SECRET |-> "secret",
              JWKS_URL |-> "url"]
    /\ jwks = <<>>
    /\ now = Epoch
    /\ req = Idle
    /\ \E k \in StoredSizes : points = StoredBefore(k)
    /\ tool = NoTool
    /\ oauth = NoOAuth
    /\ AuxInit

ToolNext ==
    \/ Tick
    \/ add_memory
    \/ get_memory
    \/ get_memory_by_query
    \/ update_memory

ToolSpec == ToolInit /\ [][ToolNext]_vars

\* the server is up: the OAuth endpoints answer
OAuthInit ==
    /\ phase = "serving"
    /\ env = [WORKOS_CLIENT_ID |-> ExpectedAud, WORKOS_CLIENT_SECRET |-> "secret",
              JWKS_URL |-> "url"]
    /\ jwks = <<>>
    /\ now = Epoch
    /\ req = Idle
    /\ points = <<>>
    /\ tool = NoTool
    /\ oauth = NoOAuth
    /\ AuxInit

OAuthNext ==
    \/ oauth_authorization_server
    \/ oauth_authorize
    \/ oauth_register
    \/ workos_callback

OAuthSpec == OAuthInit /\ [][OAuthNext]_vars

\* the server is up and listening
ShutdownInit ==
    /\ phase = "serving"
    /\ env = [WORKOS_CLIENT_ID |-> ExpectedAud, WORKOS_CLIENT_SECRET |-> "secret",
              JWKS_URL |-> "url"]
    /\ jwks = <<>>
    /\ now = Epoch
    /\ req = Idle
    /\ points = <<>>
    /\ tool = NoTool
    /\ oauth = NoOAuth
    /\ AuxInit

ShutdownNext ==
    \/ Tick
    \/ sse_connect
    \/ sse_disconnect
    \/ ctrl_c
    \/ with_graceful_shutdown
    \/ session_cancelled
    \/ server_await

ShutdownSpec == ShutdownInit /\ [][ShutdownNext]_vars

\* MemoryServiceImpl::new: an empty map
GrpcInit ==
    /\ phase = "serving"
    /\ env = [WORKOS_CLIENT_ID |-> ExpectedAud, WORKOS_CLIENT_SECRET |-> "secret",
              JWKS_URL |-> "url"]
    /\ jwks = <<>>
    /\ now = Epoch
    /\ req = Idle
    /\ points = <<>>
    /\ tool = NoTool
    /\ oauth = NoOAuth
    /\ AuxInit

GrpcNext ==
    \/ Grpc_add_memory
    \/ Grpc_get_memory
    \/ Grpc_delete_memory
    \/ Grpc_update_memory
    \/ list_memories

GrpcSpec == GrpcInit /\ [][GrpcNext]_vars

----------------------------------------------------------------------------
\* the collection is empty, the controller has served no call
ControllerInit ==
    /\ phase = "serving"
    /\ env = [WORKOS_CLIENT_ID |-> ExpectedAud, WORKOS_CLIENT_SECRET |-> "secret",
              JWKS_URL |-> "url"]
    /\ jwks = <<>>
    /\ now = Epoch
    /\ req = Idle
    /\ points = <<>>
    /\ tool = NoTool
    /\ oauth = NoOAuth
    /\ AuxInit

ControllerNext ==
    \/ Tick
    \/ Controller_add_memory
    \/ Controller_add_memory_bulk
    \/ Controller_update_memory
    \/ Controller_delete_memory

ControllerSpec == ControllerInit /\ [][ControllerNext]_vars

----------------------------------------------------------------------------
\* no call of scrape is running
ScrapeInit ==
    /\ phase = "serving"
    /\ env = [WORKOS_CLIENT_ID |-> ExpectedAud, WORKOS_CLIENT_SECRET |-> "secret",
              JWKS_URL |-> "url"]
    /\ jwks = <<>>
    /\ now = Epoch
    /\ req = Idle
    /\ points = <<>>
    /\ tool = NoTool
    /\ oauth = NoOAuth
    /\ AuxInit

ScrapeNext ==
    \/ Scrapper_scrape
    \/ Scrapper_first_fetch
    \/ Scrapper_sleep
    \/ Scrapper_second_fetch
    \/ Scrapper_returned

ScrapeSpec == ScrapeInit /\ [][ScrapeNext]_vars

\* the client gives up a GET after 30 s (Client::builder().timeout) and the
\* sleep ends after 5 s, so a call that waits at an await goes on
ScrapeLiveSpec ==
    /\ ScrapeSpec
    /\ WF_vars(Scrapper_first_fetch)
    /\ WF_vars(Scrapper_sleep)
    /\ WF_vars(Scrapper_second_fetch)

----------------------------------------------------------------------------

Init ==
    /\ phase = "boot"
    /\ env \in [WORKOS_CLIENT_ID : {None, ExpectedAud},
                WORKOS_CLIENT_SECRET : {None, "secret"},
                JWKS_URL : {None, "url"}]
    /\ jwks = <<>>
    /\ now = Epoch
    /\ req = Idle
    /\ points = <<>>
    /\ tool = NoTool
    /\ oauth = NoOAuth
    /\ AuxInit

Next ==
    \/ McpOAuthStore_new
    \/ Tick
    \/ Receive
    \/ validate_token_middleware
    \/ index
    \/ sse_handler
    \/ post_event_handler
    \/ Complete

Spec == Init /\ [][Next]_vars

TypeOK ==
    /\ phase \in {"boot", "serving", "aborted"}
    /\ now \in Epoch..(Epoch + MaxClock)
    /\ req.stage \in {"idle", "middleware", "downstream", "responded"}

----------------------------------------------------------------------------
(* Properties *)

\* the request went through the token layer and has left the middleware
PastMiddleware ==
    /\ req.stage \in {"downstream", "responded"}
    /\ Route(req.path).token_layer

\* the header value's bytes begin with the seven characters B e a r e r SPACE
StartsWithBearer(h) ==
    /\ Len(h.text) >= 7
    /\ h.text[1] = "B" /\ h.text[2] = "e" /\ h.text[3] = "a" /\ h.text[4] = "r"
    /\ h.text[5] = "e" /\ h.text[6] = "r" /\ h.text[7] = " "

\* the Authorization value is exactly "Bearer " followed by a compact token
\* whose header decodes, and check_token has been called on it
CheckedWellFormed ==
    /\ req.checked
    /\ req.auth.text = <<"B", "e", "a", "r", "e", "r", " ">>
    /\ req.auth.tok.hdr = "ok"

\* the checked token names exactly one key of the key set by its kid, is
\* signed by that key with RS256 and carries a sub
SignedByKeySet ==
    /\ CheckedWellFormed
    /\ req.auth.tok.alg = "RS256"
    /\ req.auth.tok.sub # None
    /\ \E i \in 1..Len(jwks) :
          /\ jwks[i].kid = req.auth.tok.kid
          /\ jwks[i].mat = req.auth.tok.signer
          /\ \A j \in 1..Len(jwks) : jwks[j].kid = req.auth.tok.kid => j = i

\* C1: a request on a token-protected route with no Authorization header, or
\* with a value that does not start with "Bearer " (case-sensitive), is
\* answered 401 without check_token being called and without its handler run.
C1_NoBearerRejected ==
    (PastMiddleware /\ (req.auth = NoHeader \/ ~StartsWithBearer(req.auth)))
        => /\ req.stage = "responded"
           /\ req.response = Unauthorized
           /\ ~req.checked
           /\ ~req.handler_ran

C1_Witness ==
    /\ req.stage = "responded"
    /\ req.path = "/mcp/message"
    /\ req.auth.text = <<"b", "e", "a", "r", "e", "r", " ">>
    /\ req.auth.tok = GoodToken
    /\ req.response = Unauthorized

\* C2: on each of /mcp, /mcp/sse and /mcp/message the handler runs only after
\* check_token returned Ok for the request's bearer token.
C2_AllEntryPointsGuarded ==
    (req.path \in {"/mcp", "/mcp/sse", "/mcp/message"} /\ req.handler_ran)
        => (req.checked /\ req.verdict.kind = "ok")

\* C3: every bearer token that fails validation, at whichever step, gets the
\* same bare 401 response.
C3_UniformUnauthorized ==
    (req.stage = "responded" /\ req.checked /\ req.verdict.kind # "ok")
        => req.response = Unauthorized

\* C4: check_token on a bearer string whose header does not parse returns an
\* error value, and the request ends in the 401 of any other failure.
C4_MalformedIsError ==
    (req.stage = "responded" /\ req.checked /\ req.auth.tok.hdr = "malformed")
        => (req.verdict.kind = "err" /\ req.response = Unauthorized)

\* C5: a token whose kid is the kid of no key in the key set fails with the
\* unknown-key error, no signature verification is attempted and the handler
\* does not run, whatever its signature, expiry and audience are.
C5_UnknownKidFails ==
    (CheckedWellFormed /\ req.auth.tok.kid # None
       /\ \A i \in 1..Len(jwks) : jwks[i].kid # req.auth.tok.kid)
        => /\ req.verdict.kind = "err"
           /\ req.verdict.msg = "No matching kid found in jwks"
           /\ req.verdict.sigv = "not_attempted"
           /\ req.stage = "responded"
           /\ req.response = Unauthorized
           /\ ~req.handler_ran

C5_Witness ==
    /\ req.checked
    /\ req.stage = "responded"
    /\ jwks = << [kid |-> "k1", mat |-> "K1"] >>
    /\ req.auth.tok = [GoodToken EXCEPT !.kid = "k2"]
    /\ req.checked_at < req.auth.tok.exp
    /\ req.verdict.msg = "No matching kid found in jwks"

\* C6: a token whose header declares an algorithm other than RS256 is never
\* accepted, and it is rejected before any signature is verified.
C6_AlgorithmPinned ==
    (CheckedWellFormed /\ req.auth.tok.alg # "RS256")
        => /\ req.verdict.kind = "err"
           /\ req.verdict.sigv = "not_attempted"
           /\ req.stage = "responded"
           /\ ~req.handler_ran

C6_Witness ==
    /\ req.checked
    /\ req.stage = "responded"
    /\ jwks = << [kid |-> "k1", mat |-> "K1"] >>
    /\ req.auth.tok = [GoodToken EXCEPT !.alg = "HS256"]
    /\ req.verdict.msg = "JWT Decode Error: InvalidAlgorithm"

\* C7: a token whose exp is not strictly greater than the time of the check
\* is rejected as expired, also when its kid, algorithm, signature and
\* audience are all valid.
C7_StrictExpiry ==
    (SignedByKeySet /\ req.auth.tok.aud = ExpectedAud
       /\ req.auth.tok.exp # -1 /\ req.auth.tok.exp <= req.checked_at)
        => /\ req.verdict.kind = "err"
           /\ req.verdict.msg = "JWT Decode Error: ExpiredSignature"

\* C8: a token whose audience is not the expected audience, a token without
\* an audience claim included, is not accepted, also when its signature and
\* expiry are valid.
C8_AudienceEnforced ==
    (SignedByKeySet /\ req.auth.tok.exp > req.checked_at
       /\ req.auth.tok.aud # ExpectedAud)
        => req.verdict.kind # "ok"

\* C9: a token whose kid names exactly one key of the key set, signed by that
\* key with RS256, with exp in the future and the expected audience, is
\* accepted and the claims returned carry the token's sub; and claims are
\* returned only when the signature check against the key set's key passed.
C9_ValidTokenAccepted ==
    /\ (SignedByKeySet
          /\ req.auth.tok.exp > req.checked_at
          /\ req.auth.tok.aud = ExpectedAud)
         => (req.verdict.kind = "ok" /\ req.verdict.sub = req.auth.tok.sub)
    /\ req.verdict.kind = "ok"
         => /\ req.verdict.sigv = "passed"
            /\ req.verdict.sub = req.auth.tok.sub
            /\ \E i \in 1..Len(jwks) :
                  /\ jwks[i].kid = req.auth.tok.kid
                  /\ jwks[i].mat = req.auth.tok.signer

C9_Witness ==
    /\ req.checked
    /\ req.stage = "downstream"
    /\ jwks = << [kid |-> "k1", mat |-> "bad"], [kid |-> "k2", mat |-> "K2"] >>
    /\ req.auth.tok = [GoodToken EXCEPT !.kid = "k2", !.signer = "K2"]
    /\ req.verdict.kind = "ok"
    /\ req.verdict.sub = "alice"

\* C10: in every tool invocation in which extract_user_id obtains a user id,
\* that id is the sub of the token the middleware validated for that request.
C10_UserIdIsTokenSub ==
    (req.handler_ran /\ Route(req.path).handler = "post_event_handler"
       /\ req.user_id # "panic"
       /\ req.auth.tok.aud = ExpectedAud /\ req.auth.tok.exp > req.checked_at)
        => req.user_id = req.verdict.sub

----------------------------------------------------------------------------
(* The tools: claims checked under ToolSpec.                                 *)

\* a tool call has just been served by this step
Served(name) == tool'.seq = tool.seq + 1 /\ tool'.name = name

\* C11: every call a tool makes to MemoryController carries as tenant the
\* subject of the caller, resolved from the request's context.
C11_TenantFromContext ==
    (tool.ctl.op # None /\ tool.uid # None) => tool.ctl.tenant = tool.uid

\* C12: every record get_memory or get_memory_by_query returns to a subject
\* has that subject as tenant, and its content was not written by another
\* subject.
C12_TenantIsolation ==
    (tool.name \in {"get_memory", "get_memory_by_query"} /\ tool.outcome = "success")
        => \A r \in tool.records :
              /\ r.user_id = tool.uid
              /\ r.writer \notin Subjects \ {tool.uid}

\* C13: add_memory with an empty text, called with a caller identity, returns
\* the invalid-input error with a reason, calls neither the embedder nor the
\* controller, and leaves the collection as it was.
C13_EmptyTextRejected ==
    [][(Served("add_memory") /\ tool'.text = "" /\ tool'.uid # None)
          => /\ tool'.outcome = "invalid_request"
             /\ tool'.msg = "Memory content cannot be empty"
             /\ tool'.ctl = NoCall
             /\ ~tool'.embedded
             /\ points' = points]_vars

C13_Witness ==
    /\ tool.name = "add_memory" /\ tool.text = "" /\ tool.uid = "alice"
    /\ tool.outcome = "invalid_request"
    /\ Len(points) = 1

\* C14: a successful add_memory returns the persisted record: it has an
\* identifier under which the collection holds it, the given text as content
\* and the caller's subject as tenant.
C14_AddReturnsRecord ==
    (tool.name = "add_memory" /\ tool.outcome = "success")
        => \E r \in tool.records :
              /\ r.content = tool.text
              /\ r.user_id = tool.uid
              /\ r.memory_id \in 1..Len(points)
              /\ points[r.memory_id].content = tool.text

\* C15: when update_memory(X, new) on a record of the caller succeeded, the
\* caller's next get_memory returns a record with id X and content new.
C15_UpdateThenGet ==
    [][(/\ tool.name = "update_memory" /\ tool.outcome = "success"
        /\ tool.uid # None
        /\ points[tool.id].user_id = tool.uid
        /\ Served("get_memory") /\ tool'.outcome = "success"
        /\ tool'.uid = tool.uid)
          => \E r \in tool'.records :
                r.memory_id = tool.id /\ r.content = tool.text]_vars

\* C16: a successful update_memory changes the content of the addressed
\* record only: its tenant, identifier, creation time and every other stored
\* field keep their values, and no other record changes.
C16_UpdateOnlyContent ==
    [][(/\ Served("update_memory") /\ tool'.outcome = "success"
        /\ tool'.uid = points[tool'.id].user_id)
          => /\ Len(points') = Len(points)
             /\ \A i \in 1..Len(points) :
                   /\ points'[i].user_id = points[i].user_id
                   /\ points'[i].memory_id = points[i].memory_id
                   /\ points'[i].created_at = points[i].created_at
                   /\ points'[i].updated_at = points[i].updated_at
                   /\ (i # tool'.id => points'[i] = points[i])]_vars

\* C17: a successful get_memory returns exactly the records of the caller,
\* however many there are.
C17_GetReturnsAll ==
    (tool.name = "get_memory" /\ tool.outcome = "success")
        => tool.records = Matching(points, tool.uid)

\* C18: get_memory_by_query with an empty query returns the invalid-input
\* error and calls neither the embedder nor the search.
C18_EmptyQueryRejected ==
    (tool.name = "get_memory_by_query" /\ tool.text = "" /\ tool.uid # None)
        => /\ tool.outcome = "invalid_request"
           /\ ~tool.embedded
           /\ ~tool.searched

\* C19: when the controller call of a tool failed, the call completes with a
\* tool error of category upstream; the handler is never aborted.
C19_UpstreamIsToolError ==
    tool.err # None => (tool.outcome = "tool_error" /\ tool.msg = "upstream")

----------------------------------------------------------------------------
(* The OAuth endpoints: claims checked under OAuthSpec.                      *)

\* C20: the metadata advertises S256 and never plain, and every authorize
\* request that is redirected to the identity provider asked for S256 or for
\* no method, and is forwarded with S256.
C20_OnlyS256 ==
    /\ oauth.endpoint = "oauth_authorization_server"
         => /\ "S256" \in oauth.code_challenge_methods_supported
            /\ "plain" \notin oauth.code_challenge_methods_supported
    /\ (oauth.endpoint = "oauth_authorize" /\ oauth.status = 307)
         => /\ unwrap_or(oauth.query.code_challenge_method, "S256") = "S256"
            /\ oauth.location.code_challenge_method = "S256"

\* C21: every registered client has a non-empty redirect URI, and a
\* registration request whose list of redirect URIs brings none is answered
\* 400 invalid_request and registers nothing.
C21_RedirectUriPresent ==
    [][/\ \A id \in DOMAIN clients' : clients'[id].redirect_uri # ""
       /\ (/\ oauth'.endpoint = "oauth_register"
           /\ oauth' # oauth
           /\ oauth'.register.redirect_uris.some
           /\ \/ oauth'.register.redirect_uris.v = <<>>
              \/ oauth'.register.redirect_uris.v[1] = "")
            => (/\ oauth'.status = 400
                /\ oauth'.error = "invalid_request"
                /\ clients' = clients)]_vars

\* C22: an authorize call is redirected to the identity provider only when
\* its client_id is registered with the redirect URI it presents.
C22_AuthorizeLooksUpClient ==
    (oauth.endpoint = "oauth_authorize" /\ oauth.status = 307)
        => validate_client(clients, oauth.query.client_id.v,
                           oauth.query.redirect_uri.v)

\* C29: a callback that carries the state an authorize call produced is
\* redirected to that call's redirect URI with the callback's code and the
\* call's state (empty when it had none).
C29_StateRoundTrip ==
    [][(/\ oauth.endpoint = "oauth_authorize" /\ oauth.status = 307
        /\ oauth'.endpoint = "workos_callback"
        /\ oauth'.callback.code.some
        /\ oauth'.callback.state = Given(oauth.location.state))
          => /\ oauth'.status = 307
             /\ oauth'.redirect =
                  [url |-> oauth.query.redirect_uri.v,
                   code |-> unwrap_or(oauth'.callback.code, ""),
                   state |-> unwrap_or(oauth.query.state, "")]]_vars

----------------------------------------------------------------------------
(* The key set: checked under Spec.                                          *)

----------------------------------------------------------------------------
(* Shutdown: checked under ShutdownSpec.                                     *)

\* C24: a session is cancelled by force only after the listener has stopped
\* accepting and a grace period has passed since the shutdown began.
C24_DrainBeforeCancel ==
    \A s \in Sessions :
        srv.sessions[s] = "cancelled"
            => (~srv.accepting /\ now > srv.cancelled_at)

----------------------------------------------------------------------------
(* The in-memory memory service: checked under GrpcSpec.                     *)

\* the call this step served is a write to the entry with key k
Touches(k) ==
    /\ grpc'.op \in {"add_memory", "update_memory", "delete_memory"}
    /\ (grpc'.id = k \/ grpc'.memory.id = k)

\* C25: add_memory of a memory without id stores it under a fresh non-empty
\* id with created_at filled and returns that id and the stored memory; calls
\* that do not write an entry leave it as it is, and get_memory of a stored id
\* returns the entry, so the title given at add comes back.
C25_AddThenGet ==
    [][/\ (grpc'.op = "add_memory" /\ grpc'.memory.id = "")
            => /\ grpc'.status = "ok"
               /\ grpc'.rid # "" /\ grpc'.rid \notin DOMAIN memories.map
               /\ grpc'.rmemory.id = grpc'.rid
               /\ grpc'.rmemory.created_at # 0
               /\ grpc'.rmemory.title = grpc'.memory.title
               /\ memories'.map[grpc'.rid] = grpc'.rmemory
       /\ \A k \in DOMAIN memories.map :
             ~Touches(k) => (k \in DOMAIN memories'.map
                               /\ memories'.map[k] = memories.map[k])
       /\ (grpc'.op = "get_memory" /\ grpc'.id \in DOMAIN memories.map)
            => (grpc'.status = "ok" /\ grpc'.rmemory = memories.map[grpc'.id])]_vars

\* C26: get_memory, update_memory and delete_memory of an id that is not
\* stored return NotFound and change nothing, and every key of the map is the
\* id of the memory stored under it.
C26_NotFoundAndKeys ==
    [][/\ (/\ grpc'.op \in {"get_memory", "update_memory", "delete_memory"}
           /\ grpc'.id \notin DOMAIN memories.map)
            => (grpc'.status = "not_found" /\ memories' = memories)
       /\ \A k \in DOMAIN memories'.map : memories'.map[k].id = k]_vars

\* the items at positions [(page-1)*limit, min((page-1)*limit + limit, n)) of
\* a list of length n, in unbounded integers
TrueWindow(list, page, limit) ==
    LET n == Len(list)
    IN  IF page = 1 THEN SubSeq(list, 1, IF limit >= n THEN n ELSE limit)
        ELSE IF limit >= n \/ page - 1 >= n THEN <<>>
        ELSE IF (page - 1) * limit >= n THEN <<>>
        ELSE SubSeq(list, (page - 1) * limit + 1,
                    IF (page - 1) * limit + limit >= n THEN n
                    ELSE (page - 1) * limit + limit)

\* C27: list_memories returns the window of the filtered list that page and
\* limit (1 and 10 when not positive) name, reports the length of the filtered
\* list, and computes the window without overflow.
C27_ListWindow ==
    (grpc.op = "list_memories" /\ (grpc.status = "ok" \/ grpc.overflow))
        => /\ grpc.status = "ok"
           /\ ~grpc.overflow
           /\ grpc.total_count = Len(grpc.filtered)
           /\ grpc.rlist =
                TrueWindow(grpc.filtered,
                           IF grpc.list.page > 0 THEN grpc.list.page ELSE 1,
                           IF grpc.list.limit > 0 THEN grpc.list.limit ELSE 10)

----------------------------------------------------------------------------
(* The vector store under MemoryController: checked under ControllerSpec.    *)

\* C28: every point of the collection has the payload memory_id that is its
\* point id and an updated_at not before its created_at; a new point has the
\* two equal, and only an update_memory of a point changes its updated_at.
C28_PointPayload ==
    [][\A i \in (1..Len(points')) \ controller'.deleted :
          /\ points'[i].memory_id = i
          /\ points'[i].updated_at >= points'[i].created_at
          /\ i > Len(points) => points'[i].updated_at = points'[i].created_at
          /\ (/\ i <= Len(points)
              /\ ~(controller'.op = "update_memory" /\ controller'.id = i))
               => /\ points'[i].updated_at = points[i].updated_at
                  /\ points'[i].created_at = points[i].created_at]_vars

\* a point was added, time passed, and update_memory wrote it
C28_Witness ==
    /\ controller.op = "update_memory" /\ controller.err = "none"
    /\ Stored(controller.id)
    /\ points[controller.id].memory_id = controller.id
    /\ points[controller.id].updated_at > points[controller.id].created_at

----------------------------------------------------------------------------
(* Scrapper::scrape: checked under ScrapeLiveSpec.                           *)

\* what scrape has done so far is what the claim allows
ScrapeWithinClaim ==
    /\ scrape.fetches <= 2
    /\ scrape.fetches = 2
         => (scrape.first.sent /\ scrape.first.status = 200 /\ scrape.first.read
               /\ Challenged(scrape.first.body))
    /\ scrape.pc = "returned" =>
         /\ scrape.fetches >= 1
         /\ (~scrape.first.sent \/ scrape.first.status \in 400..599 \/ ~scrape.first.read)
              => (scrape.fetches = 1 /\ ~scrape.result.ok)
         /\ (scrape.first.sent /\ scrape.first.status = 200 /\ scrape.first.read
               /\ ~Challenged(scrape.first.body))
              => (scrape.fetches = 1 /\ scrape.result = Fetched(scrape.first.body))
         /\ scrape.fetches = 2 => scrape.result = scrape_callback(scrape.second)

\* C30: a call of scrape returns, after at most two fetches; the second fetch
\* is made only after a first fetch that succeeded with a challenge marker in
\* its body, its outcome is the result, and a failed first fetch (a 4xx or 5xx
\* status too) is the result with no second fetch.
C30_AtMostTwoFetches ==
    /\ []ScrapeWithinClaim
    /\ (scrape.pc = "first") ~> (scrape.pc = "returned")

\* a challenge page came first, the second fetch failed with a status, and
\* that failure was returned
C30_Witness ==
    /\ scrape.pc = "returned" /\ scrape.fetches = 2
    /\ Challenged(scrape.first.body)
    /\ scrape.second.sent /\ scrape.second.status = 500
    /\ ~scrape.result.ok

====
